---- MODULE Spec2Model ----
(***************************************************************************)
(* F-Agent decision engine (src/f-agent/src/decision/engine.py).           *)
(*                                                                         *)
(* Representation of Python values:                                        *)
(*   - Optional[T]: None is <<>>, a present value v is <<v>>.              *)
(*   - money (float dollars): integer cents.                               *)
(*   - monthly_sales_estimate (float): integer tenths of a unit.           *)
(*   - roi_percent (float, 1 decimal): integer tenths of a percent.        *)
(*   - confidence (float): integer millionths.                             *)
(*   - str that is transformed (publisher): sequence of characters.        *)
(*   - datetime: whole hours; an aware datetime keeps its UTC fields, a    *)
(*     naive one the fields of local time.                                 *)
(*   - round(x, n) on a binary float resolves a decimal tie by the         *)
(*     representation error of x (round(5.305, 2) = 5.3 but                *)
(*     round(5.425, 2) = 5.43), and two round() calls of one computation   *)
(*     can resolve theirs in opposite directions: the direction of a tie   *)
(*     is an input `up`, one boolean for each round() call whose argument  *)
(*     can be a tie, that the actions choose nondeterministically.         *)
(*                                                                         *)
(* The module holds one specification for each part of the program; the    *)
(* variables of the other parts stay at their initial values.              *)
(*   Spec     DecisionEngine.analyze called once on any ProductData        *)
(*   SpecFee  FeeCalculator and DecisionEngine._calculate_roi on a wide    *)
(*            range of prices                                              *)
(*   SpecRepeat  DecisionEngine.analyze called several times on one engine *)
(*   SpecBridge  ExtensionBridge and its EligibilityCache over time, and   *)
(*            FAgent.analyze_book on top of them                           *)
(*   SpecSAgent  SAgent.add_book, update_status and the mark_* operations  *)
(*            on one book                                                  *)
(*   SpecUnread  DecisionEngine.analyze called once, over the fields and   *)
(*            config values that no check reads                            *)
(***************************************************************************)
EXTENDS Integers, Sequences, FiniteSets, TLC

VARIABLES
    config,     \* DecisionEngine.config
    product,    \* the ProductData a caller has built
    outcome,    \* "pending", then how the call under study ended
    result,     \* what the call returned
    weight,     \* FeeCalculator: the weight_oz argument
    calc,       \* FeeCalculator: the operation called and what it returned
    calls,      \* the analyze calls made on one engine: input and result
    fp,         \* how the platform's floats resolve the ties of the prices
    cache,      \* EligibilityCache: the row of each ASIN
    now,        \* the clock (UTC)
    tz_offset,  \* local time minus UTC
    answer,     \* what the last ExtensionBridge / FAgent call returned
    results_log, \* FAgent.results_log
    book,       \* S-Agent: the book tracked
    sa_ret      \* S-Agent: how the last call ended

\* the variables of each part
engineVars == <<config, product, outcome, result>>

feeVars == <<weight, calc>>

repeatVars == <<calls, fp>>

bridgeVars == <<cache, now, tz_offset, answer, results_log>>

sagentVars == <<book, sa_ret>>

vars == <<engineVars, feeVars, repeatVars, bridgeVars, sagentVars>>

----------------------------------------------------------------------------
(* Optional values *)

None == <<>>

Some(v) == <<v>>

----------------------------------------------------------------------------
(* class Decision, class SkipReason *)

Decision == {"BUY", "SKIP", "WATCH"}

SkipReason ==
    [ RESTRICTED           |-> "Product is restricted",
      LOW_ROI              |-> "ROI below threshold",
      HIGH_BSR             |-> "BSR too high",
      LOW_SALES            |-> "Insufficient sales velocity",
      TOO_MUCH_COMPETITION |-> "Too many FBA sellers",
      PUBLISHER_WATCHLIST  |-> "Publisher on watchlist",
      PRICE_DECLINING      |-> "Price trend declining",
      APPROVAL_UNLIKELY    |-> "Approval success rate too low",
      UNKNOWN_ELIGIBILITY  |-> "Could not determine eligibility" ]

----------------------------------------------------------------------------
(* Scales of the fixed-point representation *)

\* tenths per unit of monthly_sales_estimate and of roi_percent
Tenths == 10

\* hundredths of a cent per cent: the precision of sell_price * 0.15
FeeScale == 100

\* confidence 1.0
ConfidenceOne == 1000000

----------------------------------------------------------------------------
(* str.lower() on a sequence of characters *)

UpperCase ==
    <<"A","B","C","D","E","F","G","H","I","J","K","L","M",
      "N","O","P","Q","R","S","T","U","V","W","X","Y","Z">>

LowerCase ==
    <<"a","b","c","d","e","f","g","h","i","j","k","l","m",
      "n","o","p","q","r","s","t","u","v","w","x","y","z">>

\* the lower-case form of each upper-case letter
ToLower ==
    [c \in {UpperCase[i] : i \in 1..Len(UpperCase)} |->
        LowerCase[CHOOSE i \in 1..Len(UpperCase) : UpperCase[i] = c]]

LowerChar(c) == IF c \in DOMAIN ToLower THEN ToLower[c] ELSE c

lower(s) == [i \in 1..Len(s) |-> LowerChar(s[i])]

----------------------------------------------------------------------------
(* round(): n/d to the nearest integer, a tie going up iff `up` *)

RoundDiv(n, d, up) ==
    LET q == n \div d
        r == n - q * d
    IN  IF 2 * r < d THEN q
        ELSE IF 2 * r > d THEN q + 1
        ELSE IF up THEN q + 1 ELSE q

Max(a, b) == IF a >= b THEN a ELSE b

\* a direction (TRUE: up) for the tie of each round() call whose argument can
\* lie half-way between two results
Ties ==
    [ referral_fee  : BOOLEAN,
      total_fees    : BOOLEAN,
      roi_percent   : BOOLEAN,
      max_buy_price : BOOLEAN ]

NoTieUp ==
    [ referral_fee  |-> FALSE,
      total_fees    |-> FALSE,
      roi_percent   |-> FALSE,
      max_buy_price |-> FALSE ]

\* n/d lies half-way between two integers
IsTie(n, d) == 2 * (n - (n \div d) * d) = d

----------------------------------------------------------------------------
(* class FeeCalculator *)

\* 0.15, as a percentage
REFERRAL_FEE_PERCENT == 15

\* $0.30, in cents
MINIMUM_REFERRAL_FEE == 30

\* FBA_FEES, in cents
FBA_FEES ==
    [ small_standard   |-> 322,
      large_standard   |-> 495,
      large_standard_2 |-> 595 ]

\* $0.27, in cents
INBOUND_PLACEMENT_FEE == 27

\* weight_oz: float = 12
DefaultWeightOz == 12

\* The fees before rounding, in hundredths of a cent.
referral_fee_raw(sell_price) ==
    Max(sell_price * REFERRAL_FEE_PERCENT, MINIMUM_REFERRAL_FEE * FeeScale)

fba_fee_for(weight_oz) ==
    IF weight_oz <= 16 THEN FBA_FEES.small_standard
    ELSE IF weight_oz <= 32 THEN FBA_FEES.large_standard
    ELSE FBA_FEES.large_standard_2

total_fees_raw(sell_price, weight_oz) ==
    referral_fee_raw(sell_price)
      + fba_fee_for(weight_oz) * FeeScale
      + INBOUND_PLACEMENT_FEE * FeeScale

\* calculate_fees: every output rounded to cents (fba_fee and inbound_fee are
\* whole cents, their rounding has no tie)
calculate_fees(sell_price, weight_oz, up) ==
    [ referral_fee |-> RoundDiv(referral_fee_raw(sell_price), FeeScale,
                                up.referral_fee),
      fba_fee      |-> RoundDiv(fba_fee_for(weight_oz) * FeeScale, FeeScale, FALSE),
      inbound_fee  |-> RoundDiv(INBOUND_PLACEMENT_FEE * FeeScale, FeeScale, FALSE),
      total_fees   |-> RoundDiv(total_fees_raw(sell_price, weight_oz), FeeScale,
                                up.total_fees) ]

\* faulty variant: a zero cost is replaced by one cent to avoid the division
\* by zero
calculate_profit_floor_cost(sell_price, buy_price, weight_oz, up) ==
    LET fees         == calculate_fees(sell_price, weight_oz, up)
        gross_profit == sell_price - fees.total_fees - buy_price
    IN  [ sell_price   |-> sell_price,
          buy_price    |-> buy_price,
          fees         |-> fees,
          gross_profit |-> RoundDiv(gross_profit * FeeScale, FeeScale, FALSE),
          roi_percent  |-> RoundDiv(gross_profit * 100 * Tenths,
                                    Max(buy_price, 1), up.roi_percent) ]

\* faulty variant: the ROI is rounded to a whole percent
calculate_profit_whole_percent(sell_price, buy_price, weight_oz, up) ==
    LET fees         == calculate_fees(sell_price, weight_oz, up)
        gross_profit == sell_price - fees.total_fees - buy_price
    IN  [ sell_price   |-> sell_price,
          buy_price    |-> buy_price,
          fees         |-> fees,
          gross_profit |-> RoundDiv(gross_profit * FeeScale, FeeScale, FALSE),
          roi_percent  |-> IF buy_price > 0
                           THEN Tenths * RoundDiv(gross_profit * 100, buy_price,
                                                  up.roi_percent)
                           ELSE 0 ]

\* calculate_profit: gross_profit in cents (a difference of whole cents, its
\* rounding has no tie), roi_percent in tenths of a percent
calculate_profit(sell_price, buy_price, weight_oz, up) ==
    LET fees         == calculate_fees(sell_price, weight_oz, up)
        gross_profit == sell_price - fees.total_fees - buy_price
    IN  [ sell_price   |-> sell_price,
          buy_price    |-> buy_price,
          fees         |-> fees,
          gross_profit |-> RoundDiv(gross_profit * FeeScale, FeeScale, FALSE),
          roi_percent  |-> IF buy_price > 0
                           THEN RoundDiv(gross_profit * 100 * Tenths, buy_price,
                                         up.roi_percent)
                           ELSE 0 ]

\* The tie directions that make a difference to the roundings of
\* calculate_fees, calculate_profit and the max-buy price at these arguments:
\* a direction is up only where the rounded quantity is a tie.
TiesOf(sell_price, buy_price, weight_oz, target_percent) ==
    { up \in Ties :
        LET total_fees == calculate_fees(sell_price, weight_oz, up).total_fees
        IN  /\ up.referral_fee => IsTie(referral_fee_raw(sell_price), FeeScale)
            /\ up.total_fees
                  => IsTie(total_fees_raw(sell_price, weight_oz), FeeScale)
            /\ up.roi_percent
                  => /\ buy_price > 0
                     /\ IsTie((sell_price - total_fees - buy_price) * 100 * Tenths,
                              buy_price)
            /\ up.max_buy_price
                  => IsTie((sell_price - total_fees) * 100, 100 + target_percent) }

----------------------------------------------------------------------------
(* class DecisionEngine: configuration and watchlist *)

\* _load_config: the default config (no config file)
DefaultConfig ==
    [ eligibility |-> [ allowed_statuses           |-> {"GOOD"},
                        allow_need_approval        |-> FALSE,
                        approval_success_threshold |-> 70 ],
      bsr         |-> [ max_rank |-> 2000000, preferred_max |-> 500000 ],
      sales       |-> [ min_monthly_sales |-> 1, preferred_monthly_sales |-> 3 ],
      roi         |-> [ minimum_percent |-> 30, preferred_percent |-> 50 ],
      competition |-> [ max_fba_sellers |-> 10, preferred_fba_sellers |-> 5 ],
      price       |-> [ min_selling_price |-> 1000, allow_declining_trend |-> FALSE ] ]

\* _load_config: a config file that allows approval-gated and declining products
PermissiveConfig ==
    [ DefaultConfig EXCEPT !.eligibility.allow_need_approval = TRUE,
                           !.price.allow_declining_trend = TRUE ]

\* _load_config: a config file with other thresholds, and without the two
\* optional policy keys (they are read with .get(key, False))
TunedConfig ==
    [ eligibility |-> [ allowed_statuses |-> {"GOOD"} ],
      bsr         |-> [ max_rank |-> 1000000, preferred_max |-> 100000 ],
      sales       |-> [ min_monthly_sales |-> 0, preferred_monthly_sales |-> 10 ],
      roi         |-> [ minimum_percent |-> 50, preferred_percent |-> 100 ],
      competition |-> [ max_fba_sellers |-> 11, preferred_fba_sellers |-> 2 ],
      price       |-> [ min_selling_price |-> 1500 ] ]

Configs == {DefaultConfig, PermissiveConfig, TunedConfig}

\* dict.get(key, default)
get(d, key, default) == IF key \in DOMAIN d THEN d[key] ELSE default

\* _load_publisher_watchlist
publisher_watchlist ==
    { <<"t","e","s","t"," ","p","r","e","p"," ","c","o","m","p","a","n","y">>,
      <<"w","o","r","k","b","o","o","k"," ","p","u","b","l","i","s","h","e","r">> }

----------------------------------------------------------------------------
(* The criterion checks: each returns <<ok, reason>>, reason None when ok *)

\* faulty variant: no RESTRICTED branch
_check_eligibility_unrestricted(cfg, p) ==
    LET status == p.eligibility_status
    IN  IF status = "UNKNOWN" \/ status = "NOT_CHECKED"
        THEN <<FALSE, Some("UNKNOWN_ELIGIBILITY")>>
        ELSE IF status = "NEED_APPROVAL"
                /\ ~get(cfg.eligibility, "allow_need_approval", FALSE)
             THEN <<FALSE, Some("APPROVAL_UNLIKELY")>>
        ELSE <<TRUE, None>>

\* faulty variant: NEED_APPROVAL fails whatever the policy flag
_check_eligibility_no_policy(cfg, p) ==
    LET status == p.eligibility_status
    IN  IF status = "RESTRICTED" THEN <<FALSE, Some("RESTRICTED")>>
        ELSE IF status = "UNKNOWN" \/ status = "NOT_CHECKED"
             THEN <<FALSE, Some("UNKNOWN_ELIGIBILITY")>>
        ELSE IF status = "NEED_APPROVAL"
             THEN <<FALSE, Some("APPROVAL_UNLIKELY")>>
        ELSE <<TRUE, None>>

_check_eligibility(cfg, p) ==
    LET status == p.eligibility_status
    IN  IF status = "RESTRICTED" THEN <<FALSE, Some("RESTRICTED")>>
        ELSE IF status = "UNKNOWN" \/ status = "NOT_CHECKED"
             THEN <<FALSE, Some("UNKNOWN_ELIGIBILITY")>>
        ELSE IF status = "NEED_APPROVAL"
                /\ ~get(cfg.eligibility, "allow_need_approval", FALSE)
             THEN <<FALSE, Some("APPROVAL_UNLIKELY")>>
        ELSE <<TRUE, None>>

\* faulty variant: a missing rank fails the check
_check_bsr_required(cfg, p) ==
    IF p.bsr = None THEN <<FALSE, Some("HIGH_BSR")>>
    ELSE IF p.bsr[1] > cfg.bsr.max_rank THEN <<FALSE, Some("HIGH_BSR")>>
    ELSE <<TRUE, None>>

_check_bsr(cfg, p) ==
    IF p.bsr = None THEN <<TRUE, None>>
    ELSE IF p.bsr[1] > cfg.bsr.max_rank THEN <<FALSE, Some("HIGH_BSR")>>
    ELSE <<TRUE, None>>

\* faulty variant: a missing sales estimate counts as no sales
_check_sales_required(cfg, p) ==
    IF p.monthly_sales_estimate = None THEN <<FALSE, Some("LOW_SALES")>>
    ELSE IF p.monthly_sales_estimate[1] < cfg.sales.min_monthly_sales * Tenths
         THEN <<FALSE, Some("LOW_SALES")>>
    ELSE <<TRUE, None>>

_check_sales(cfg, p) ==
    IF p.monthly_sales_estimate = None THEN <<TRUE, None>>
    ELSE IF p.monthly_sales_estimate[1] < cfg.sales.min_monthly_sales * Tenths
         THEN <<FALSE, Some("LOW_SALES")>>
    ELSE <<TRUE, None>>

\* faulty variant: a seller count equal to the ceiling fails
_check_competition_inclusive(cfg, p) ==
    IF p.fba_seller_count = None THEN <<TRUE, None>>
    ELSE IF p.fba_seller_count[1] >= cfg.competition.max_fba_sellers
         THEN <<FALSE, Some("TOO_MUCH_COMPETITION")>>
    ELSE <<TRUE, None>>

_check_competition(cfg, p) ==
    IF p.fba_seller_count = None THEN <<TRUE, None>>
    ELSE IF p.fba_seller_count[1] > cfg.competition.max_fba_sellers
         THEN <<FALSE, Some("TOO_MUCH_COMPETITION")>>
    ELSE <<TRUE, None>>

\* faulty variant: a sale price below price.min_selling_price fails the check
_check_price_trend_min_price(cfg, p) ==
    IF p.current_price # None /\ p.current_price[1] < cfg.price.min_selling_price
    THEN <<FALSE, Some("PRICE_DECLINING")>>
    ELSE IF p.price_trend = None THEN <<TRUE, None>>
    ELSE IF p.price_trend[1] = "declining"
            /\ ~get(cfg.price, "allow_declining_trend", FALSE)
         THEN <<FALSE, Some("PRICE_DECLINING")>>
    ELSE <<TRUE, None>>

_check_price_trend(cfg, p) ==
    IF p.price_trend = None THEN <<TRUE, None>>
    ELSE IF p.price_trend[1] = "declining"
            /\ ~get(cfg.price, "allow_declining_trend", FALSE)
         THEN <<FALSE, Some("PRICE_DECLINING")>>
    ELSE <<TRUE, None>>

_check_publisher(cfg, p) ==
    IF p.publisher = None THEN <<TRUE, None>>
    ELSE IF lower(p.publisher[1]) \in publisher_watchlist
         THEN <<FALSE, Some("PUBLISHER_WATCHLIST")>>
    ELSE <<TRUE, None>>

\* faulty variant: the max-buy price is solved for the minimum ROI
roi_of_prices_minimum(cfg, current_price, source_price, up) ==
    LET profit_calc == calculate_profit(current_price, source_price,
                                        DefaultWeightOz, up)
        fees        == calculate_fees(current_price, DefaultWeightOz, up)
        max_buy     == RoundDiv((current_price - fees.total_fees) * 100,
                                100 + cfg.roi.minimum_percent,
                                up.max_buy_price)
    IN  [ roi           |-> Some(profit_calc.roi_percent),
          profit        |-> Some(profit_calc.gross_profit),
          max_buy_price |-> Some(max_buy),
          skip_reason   |-> IF profit_calc.roi_percent
                                 < cfg.roi.minimum_percent * Tenths
                            THEN Some("LOW_ROI") ELSE None ]

\* faulty variant: a book that costs nothing is exempt from the ROI floor
roi_of_prices_free_exempt(cfg, current_price, source_price, up) ==
    LET profit_calc == calculate_profit(current_price, source_price,
                                        DefaultWeightOz, up)
        fees        == calculate_fees(current_price, DefaultWeightOz, up)
        max_buy     == RoundDiv((current_price - fees.total_fees) * 100,
                                100 + cfg.roi.preferred_percent,
                                up.max_buy_price)
    IN  [ roi           |-> Some(profit_calc.roi_percent),
          profit        |-> Some(profit_calc.gross_profit),
          max_buy_price |-> Some(max_buy),
          skip_reason   |-> IF source_price > 0
                               /\ profit_calc.roi_percent
                                     < cfg.roi.minimum_percent * Tenths
                            THEN Some("LOW_ROI") ELSE None ]

\* _calculate_roi once both prices are known
roi_of_prices(cfg, current_price, source_price, up) ==
    LET profit_calc == calculate_profit(current_price, source_price,
                                        DefaultWeightOz, up)
        fees        == calculate_fees(current_price, DefaultWeightOz, up)
        \* (current_price - total_fees) / (1 + preferred_percent / 100)
        max_buy     == RoundDiv((current_price - fees.total_fees) * 100,
                                100 + cfg.roi.preferred_percent,
                                up.max_buy_price)
    IN  [ roi           |-> Some(profit_calc.roi_percent),
          profit        |-> Some(profit_calc.gross_profit),
          max_buy_price |-> Some(max_buy),
          skip_reason   |-> IF profit_calc.roi_percent
                                 < cfg.roi.minimum_percent * Tenths
                            THEN Some("LOW_ROI") ELSE None ]

no_roi == [ roi |-> None, profit |-> None, max_buy_price |-> None, skip_reason |-> None ]

\* faulty variant: the numbers are dropped when the ROI floor is missed
_calculate_roi_gated(cfg, p, up) ==
    IF p.current_price = None \/ p.source_price = None
    THEN no_roi
    ELSE LET r == roi_of_prices(cfg, p.current_price[1], p.source_price[1], up)
         IN  IF r.skip_reason # None
             THEN [no_roi EXCEPT !.skip_reason = r.skip_reason]
             ELSE r

_calculate_roi(cfg, p, up) ==
    IF p.current_price = None \/ p.source_price = None
    THEN no_roi
    ELSE roi_of_prices(cfg, p.current_price[1], p.source_price[1], up)

----------------------------------------------------------------------------
(* analyze *)

\* faulty variant: a failure is recorded only while no other has been
AppendIfFailedFirstOnly(skip_reasons, check) ==
    IF ~check[1] /\ skip_reasons = <<>>
    THEN Append(skip_reasons, check[2][1]) ELSE skip_reasons

\* skip_reasons.append(reason) when the check failed
AppendIfFailed(skip_reasons, check) ==
    IF ~check[1] THEN Append(skip_reasons, check[2][1]) ELSE skip_reasons

\* faulty variant: the penalty is never applied
PenaltyNever(confidence, check, percent) == confidence

\* faulty variant: the penalty is applied whether or not the check failed
PenaltyAlways(confidence, check, percent) == (confidence * percent) \div 100

\* confidence *= percent / 100 when the check failed
PenaltyIfFailed(confidence, check, percent) ==
    IF ~check[1] THEN (confidence * percent) \div 100 ELSE confidence

\* "Make decision": the verdict from the skip-reason list
hard_skips == {"RESTRICTED", "UNKNOWN_ELIGIBILITY", "PUBLISHER_WATCHLIST"}

\* faulty variant: any single failure is a WATCH
decide_single_watch(skip_reasons) ==
    IF skip_reasons # <<>>
    THEN IF Len(skip_reasons) = 1 THEN "WATCH" ELSE "SKIP"
    ELSE "BUY"

\* faulty variant: WATCH whenever all failures are time-varying ones
decide_all_soft_watch(skip_reasons) ==
    IF skip_reasons # <<>>
    THEN IF \E i \in 1..Len(skip_reasons) : skip_reasons[i] \in hard_skips
         THEN "SKIP"
         ELSE IF \A i \in 1..Len(skip_reasons) :
                    skip_reasons[i] \in {"LOW_SALES", "PRICE_DECLINING"}
              THEN "WATCH"
              ELSE "SKIP"
    ELSE "BUY"

decide(skip_reasons) ==
    IF skip_reasons # <<>>
    THEN IF \E i \in 1..Len(skip_reasons) : skip_reasons[i] \in hard_skips
         THEN "SKIP"
         ELSE IF Len(skip_reasons) = 1
                 /\ skip_reasons[1] \in {"LOW_SALES", "PRICE_DECLINING"}
              THEN "WATCH"
              ELSE "SKIP"
    ELSE "BUY"

\* ', '.join(reasons), as the sequence of the pieces of the string
RECURSIVE join(_, _)
join(sep, strs) ==
    IF strs = <<>> THEN <<>>
    ELSE IF Len(strs) = 1 THEN <<strs[1]>>
    ELSE <<strs[1], sep>> \o join(sep, Tail(strs))

_format_reason(decision, skip_reasons) ==
    LET reasons == [i \in 1..Len(skip_reasons) |-> SkipReason[skip_reasons[i]]]
    IN  IF decision = "BUY" THEN <<"All criteria passed - recommend purchase">>
        ELSE IF decision = "WATCH"
             THEN <<"Monitor for improvement: ">> \o join(", ", reasons)
             ELSE <<"Skip: ">> \o join(", ", reasons)

analyze(cfg, p, up) ==
    LET eligibility == _check_eligibility(cfg, p)
        bsr         == _check_bsr(cfg, p)
        sales       == _check_sales(cfg, p)
        comp        == _check_competition(cfg, p)
        price       == _check_price_trend(cfg, p)
        pub         == _check_publisher(cfg, p)
        roi_result  == _calculate_roi(cfg, p, up)
        s1 == AppendIfFailed(<<>>, eligibility)
        s2 == AppendIfFailed(s1, bsr)
        s3 == AppendIfFailed(s2, sales)
        s4 == AppendIfFailed(s3, comp)
        s5 == AppendIfFailed(s4, price)
        s6 == AppendIfFailed(s5, pub)
        skip_reasons == IF roi_result.skip_reason # None
                        THEN Append(s6, roi_result.skip_reason[1]) ELSE s6
        c3 == PenaltyIfFailed(ConfidenceOne, sales, 80)
        c4 == PenaltyIfFailed(c3, comp, 90)
        confidence == PenaltyIfFailed(c4, price, 85)
        decision == decide(skip_reasons)
    IN  [ asin                   |-> p.asin,
          decision               |-> decision,
          reason                 |-> _format_reason(decision, skip_reasons),
          skip_reasons           |-> IF skip_reasons # <<>>
                                     THEN Some(skip_reasons) ELSE None,
          estimated_roi          |-> roi_result.roi,
          estimated_profit       |-> roi_result.profit,
          confidence             |-> confidence,
          max_buy_price          |-> roi_result.max_buy_price,
          recommended_sell_price |-> p.current_price ]

----------------------------------------------------------------------------
(* The inputs: ProductData records a caller can construct *)

\* the five values of EligibilityStatus, and a string outside of them
EligibilityStatuses == {"GOOD", "NEED_APPROVAL", "RESTRICTED", "UNKNOWN", "NOT_CHECKED"}

StatusStrings == EligibilityStatuses \cup {"INELIGIBLE"}

\* ranks of 1,000,000, 2,000,000, ... up to MaxBsrMillions million
MaxBsrMillions == 3

BsrValues == {None} \cup {Some(k * 1000000) : k \in 1..MaxBsrMillions}

\* sales of 0.5, 1.0, ... a month, up to MaxSalesHalves halves
MaxSalesHalves == 2

SalesValues == {None} \cup {Some(k * 5) : k \in 1..MaxSalesHalves}

SellerCounts == {None, Some(10), Some(11)}

PriceTrends == {None, Some("rising"), Some("stable"), Some("declining")}

Publishers ==
    { None,
      Some(<<"G","o","o","d"," ","P","u","b","l","i","s","h","e","r">>),
      Some(<<"T","e","s","t"," ","P","r","e","p"," ","C","o","m","p","a","n","y">>) }

\* $12.10 (its fees tie at half a cent), $12.99, $24.99
CurrentPrices == {None, Some(1210), Some(1299), Some(2499)}

\* $0.00, $10.99
SourcePrices == {None, Some(0), Some(1099)}

Products ==
    [ asin                   : {"1835080030"},
      eligibility_status     : StatusStrings,
      bsr                    : BsrValues,
      monthly_sales_estimate : SalesValues,
      current_price          : CurrentPrices,
      price_trend            : PriceTrends,
      fba_seller_count       : SellerCounts,
      source_price           : SourcePrices,
      publisher              : Publishers,
      bsr_90_day_avg         : {None},
      price_90_day_avg       : {None},
      source_name            : {None},
      title                  : {None} ]

\* the tie directions that make a difference to analyze(p)
AnalyzeTies(cfg, p) ==
    IF p.current_price = None \/ p.source_price = None
    THEN {NoTieUp}
    ELSE TiesOf(p.current_price[1], p.source_price[1], DefaultWeightOz,
                cfg.roi.preferred_percent)

----------------------------------------------------------------------------
(* The state machine: an engine is constructed, a caller builds a           *)
(* ProductData and calls analyze once.                                     *)

\* the ASINs of the books looked up
Asins == {"1835080030", "0134685997"}

\* the initial values of the parts a specification leaves alone
EngineIdle ==
    /\ config = DefaultConfig
    /\ product = [ asin |-> "1835080030", eligibility_status |-> "UNKNOWN",
                   bsr |-> None, monthly_sales_estimate |-> None,
                   current_price |-> None, price_trend |-> None,
                   fba_seller_count |-> None, source_price |-> None,
                   publisher |-> None,
                   bsr_90_day_avg |-> None, price_90_day_avg |-> None,
                   source_name |-> None, title |-> None ]
    /\ outcome = "pending"
    /\ result = None

FeeIdle == weight = DefaultWeightOz /\ calc = None

RepeatIdle == calls = <<>> /\ fp = NoTieUp

BridgeIdle ==
    /\ cache = [a \in Asins |-> None]
    /\ now = 0
    /\ tz_offset = 0
    /\ answer = None
    /\ results_log = <<>>

SAgentIdle == book = None /\ sa_ret = None

Init ==
    /\ config \in Configs
    /\ product \in Products
    /\ outcome = "pending"
    /\ result = None
    /\ FeeIdle /\ RepeatIdle /\ BridgeIdle /\ SAgentIdle

\* engine.analyze(product): it returns a DecisionResult and raises nothing
Analyze ==
    /\ outcome = "pending"
    /\ \E up \in AnalyzeTies(config, product) :
          result' = Some(analyze(config, product, up))
    /\ outcome' = "returned"
    /\ UNCHANGED <<config, product, feeVars, repeatVars, bridgeVars, sagentVars>>

Next == Analyze

Spec == Init /\ [][Next]_vars

----------------------------------------------------------------------------
(* Properties of analyze *)

Returned == outcome = "returned"

\* the DecisionResult that analyze returned
R == result[1]

\* the skip-reason list analyze built (the result carries None for an empty one)
ReasonsOf(res) == IF res.skip_reasons = None THEN <<>> ELSE res.skip_reasons[1]

Range(seq) == {seq[i] : i \in 1..Len(seq)}

OptionalFields ==
    {"bsr", "monthly_sales_estimate", "current_price", "price_trend",
     "fba_seller_count", "source_price", "publisher"}

AllUnset(p) == \A f \in OptionalFields : p[f] = None

\* C1: a RESTRICTED product is always a SKIP whose reasons contain RESTRICTED,
\* whatever its other fields and the thresholds.
C1_RestrictedIsSkip ==
    (Returned /\ product.eligibility_status = "RESTRICTED")
        => /\ R.decision = "SKIP"
           /\ "RESTRICTED" \in Range(ReasonsOf(R))

\* a RESTRICTED product that passes every other check, under thresholds other
\* than the default ones
C1_Witness ==
    /\ Returned
    /\ product.eligibility_status = "RESTRICTED"
    /\ config = TunedConfig
    /\ product.bsr # None /\ product.current_price # None
    /\ product.source_price # None /\ product.publisher # None
    /\ ReasonsOf(R) = <<"RESTRICTED">>

\* C2: a RESTRICTED, UNKNOWN_ELIGIBILITY or PUBLISHER_WATCHLIST reason forces
\* SKIP; an UNKNOWN or NOT_CHECKED eligibility, or a publisher whose
\* lower-cased name is on the watchlist, never yields BUY or WATCH.
C2_HardSkipIsSkip ==
    Returned =>
        /\ (Range(ReasonsOf(R)) \cap
              {"RESTRICTED", "UNKNOWN_ELIGIBILITY", "PUBLISHER_WATCHLIST"} # {})
              => R.decision = "SKIP"
        /\ product.eligibility_status \in {"UNKNOWN", "NOT_CHECKED"}
              => R.decision = "SKIP"
        /\ (product.publisher # None
              /\ lower(product.publisher[1]) \in publisher_watchlist)
              => R.decision = "SKIP"

\* a clear-to-sell product of a watchlisted publisher (written in mixed case)
\* whose only failure is the watchlist
C2_Witness ==
    /\ Returned
    /\ product.eligibility_status = "GOOD"
    /\ product.publisher # None
    /\ product.publisher[1] # lower(product.publisher[1])
    /\ ReasonsOf(R) = <<"PUBLISHER_WATCHLIST">>
    /\ R.decision = "SKIP"

\* C3: with every optional field unset and eligibility GOOD the verdict is BUY
\* with no skip reasons.
C3_AllUnsetIsBuy ==
    (Returned /\ product.eligibility_status = "GOOD" /\ AllUnset(product))
        => /\ R.decision = "BUY"
           /\ R.skip_reasons = None

C3_Witness ==
    /\ Returned
    /\ product.eligibility_status = "GOOD"
    /\ AllUnset(product)
    /\ R.decision = "BUY"

RECURSIVE IsSubSeq(_, _)
\* a is b with zero or more elements left out
IsSubSeq(a, b) ==
    IF a = <<>> THEN TRUE
    ELSE IF b = <<>> THEN FALSE
    ELSE IF a[1] = b[1] THEN IsSubSeq(Tail(a), Tail(b))
    ELSE IsSubSeq(a, Tail(b))

Severity(decision) ==
    CASE decision = "BUY" -> 0 [] decision = "WATCH" -> 1 [] decision = "SKIP" -> 2

\* C4: unsetting any one optional field never adds a skip reason (the new list
\* is a sub-list of the old one) and never makes the verdict worse.
C4_UnsetNeverRejects ==
    Returned =>
        \A up \in AnalyzeTies(config, product) :
            R = analyze(config, product, up) =>
                \A f \in OptionalFields :
                    LET unset == analyze(config, [product EXCEPT ![f] = None], up)
                    IN  /\ IsSubSeq(ReasonsOf(unset), ReasonsOf(R))
                        /\ Severity(unset.decision) <= Severity(R.decision)

\* a product rejected for its rank alone, on which every optional field is set
C4_Witness ==
    /\ Returned
    /\ \A f \in OptionalFields : product[f] # None
    /\ ReasonsOf(R) = <<"HIGH_BSR">>
    /\ \A up \in AnalyzeTies(config, product) :
          analyze(config, [product EXCEPT !.bsr = None], up).decision = "BUY"

\* C5: the verdict is BUY iff the list is empty, WATCH iff it is exactly
\* [LOW_SALES] or [PRICE_DECLINING], and SKIP otherwise.
C5_VerdictFromReasons ==
    Returned =>
        LET reasons == ReasonsOf(R)
        IN  /\ R.decision = "BUY" <=> reasons = <<>>
            /\ R.decision = "WATCH"
                  <=> reasons \in {<<"LOW_SALES">>, <<"PRICE_DECLINING">>}
            /\ R.decision = "SKIP"
                  <=> /\ reasons # <<>>
                      /\ reasons \notin {<<"LOW_SALES">>, <<"PRICE_DECLINING">>}

\* two failures, each of which alone would be a WATCH, are a SKIP
C5_Witness ==
    /\ Returned
    /\ ReasonsOf(R) = <<"LOW_SALES", "PRICE_DECLINING">>
    /\ R.decision = "SKIP"

\* C6: analyze called with an eligibility_status outside the closed set raises
\* a validation error and returns no verdict.
C6_MalformedStatusRaises ==
    (outcome # "pending"
       /\ product.eligibility_status \notin
            {"GOOD", "NEED_APPROVAL", "RESTRICTED", "UNKNOWN", "NOT_CHECKED"})
        => /\ outcome = "raised"
           /\ result = None

\* the values a caller can give to an optional field
FieldValues(f) ==
    CASE f = "bsr"                    -> BsrValues
      [] f = "monthly_sales_estimate" -> SalesValues
      [] f = "current_price"          -> CurrentPrices
      [] f = "price_trend"            -> PriceTrends
      [] f = "fba_seller_count"       -> SellerCounts
      [] f = "source_price"           -> SourcePrices
      [] f = "publisher"              -> Publishers

\* the fields a check that records the reason reads
FailingFields(reason) ==
    CASE reason = "HIGH_BSR"             -> {"bsr"}
      [] reason = "LOW_SALES"            -> {"monthly_sales_estimate"}
      [] reason = "TOO_MUCH_COMPETITION" -> {"fba_seller_count"}
      [] reason = "PRICE_DECLINING"      -> {"price_trend"}
      [] reason = "LOW_ROI"              -> {"current_price", "source_price"}

\* the tie directions of the analysis of q, a product that differs from the
\* one analysed under `up` in field f: the same ones unless the prices differ
RepairTies(q, f, up) ==
    IF f \in {"current_price", "source_price"}
    THEN AnalyzeTies(config, q) ELSE {up}

\* the confidences of the products that differ from p in one failing field of
\* the reason only and on which no check fails; the field is given another
\* value, or (with_unset) also left unset
RepairedConfidences(p, reason, up, with_unset) ==
    UNION { UNION { { analyze(config, [p EXCEPT ![f] = v], u).confidence :
                        u \in { u2 \in RepairTies([p EXCEPT ![f] = v], f, up) :
                                  ReasonsOf(analyze(config, [p EXCEPT ![f] = v], u2))
                                      = <<>> } } :
                    v \in { w \in FieldValues(f) : with_unset \/ w # None } } :
            f \in FailingFields(reason) }

C8_ConfidenceFactors ==
    Returned =>
        LET recorded == Range(ReasonsOf(R))
            f1 == IF "LOW_SALES" \in recorded THEN 80 ELSE 100
            f2 == IF "TOO_MUCH_COMPETITION" \in recorded THEN 90 ELSE 100
            f3 == IF "PRICE_DECLINING" \in recorded THEN 85 ELSE 100
        IN  /\ R.confidence = (ConfidenceOne \div (100 * 100 * 100)) * f1 * f2 * f3
            /\ 0 <= R.confidence /\ R.confidence <= ConfidenceOne

\* the three penalties together with failures that carry none
C8_Witness ==
    /\ Returned
    /\ {"LOW_SALES", "TOO_MUCH_COMPETITION", "PRICE_DECLINING",
        "RESTRICTED", "PUBLISHER_WATCHLIST", "HIGH_BSR", "LOW_ROI"}
          \subseteq Range(ReasonsOf(R))
    /\ R.confidence * 1000 = ConfidenceOne * 612

\* whether the check that records the reason fails on the product analysed
C9_Fails(reason) ==
    CASE reason = "RESTRICTED" -> product.eligibility_status = "RESTRICTED"
      [] reason = "UNKNOWN_ELIGIBILITY" ->
            product.eligibility_status \in {"UNKNOWN", "NOT_CHECKED"}
      [] reason = "APPROVAL_UNLIKELY" ->
            /\ product.eligibility_status = "NEED_APPROVAL"
            /\ ~get(config.eligibility, "allow_need_approval", FALSE)
      [] reason = "HIGH_BSR" ->
            product.bsr # None /\ product.bsr[1] > config.bsr.max_rank
      [] reason = "LOW_SALES" ->
            /\ product.monthly_sales_estimate # None
            /\ product.monthly_sales_estimate[1] < config.sales.min_monthly_sales * Tenths
      [] reason = "TOO_MUCH_COMPETITION" ->
            /\ product.fba_seller_count # None
            /\ product.fba_seller_count[1] > config.competition.max_fba_sellers
      [] reason = "PRICE_DECLINING" ->
            /\ product.price_trend = Some("declining")
            /\ ~get(config.price, "allow_declining_trend", FALSE)
      [] reason = "PUBLISHER_WATCHLIST" ->
            /\ product.publisher # None
            /\ lower(product.publisher[1]) \in publisher_watchlist
      [] reason = "LOW_ROI" ->
            /\ product.current_price # None /\ product.source_price # None
            /\ R.estimated_roi[1] < config.roi.minimum_percent * Tenths

\* the reason codes in the order of the checks: eligibility, rank, velocity,
\* competition, price trend, publisher, economics
C9_CheckOrder ==
    <<"RESTRICTED", "UNKNOWN_ELIGIBILITY", "APPROVAL_UNLIKELY", "HIGH_BSR",
      "LOW_SALES", "TOO_MUCH_COMPETITION", "PRICE_DECLINING",
      "PUBLISHER_WATCHLIST", "LOW_ROI">>

\* the texts of a reason string: its pieces but the prefix and the separators
C9_ReasonTexts(reason) ==
    [i \in 1..(Len(reason) \div 2) |-> reason[2 * i]]

\* C9: the skip-reason list is exactly the reason codes of all failing checks,
\* each once, in the order of the checks, and the reason string lists their
\* texts in that order.
C9_AllFailuresInOrder ==
    Returned =>
        LET expected == SelectSeq(C9_CheckOrder, C9_Fails)
        IN  /\ ReasonsOf(R) = expected
            /\ expected # <<>> =>
                  /\ R.reason[1] \in {"Skip: ", "Monitor for improvement: "}
                  /\ Len(R.reason) = 2 * Len(expected)
                  /\ C9_ReasonTexts(R.reason)
                        = [i \in 1..Len(expected) |-> SkipReason[expected[i]]]
                  /\ \A i \in 1..(Len(expected) - 1) : R.reason[2 * i + 1] = ", "

\* a RESTRICTED product with a rank above the ceiling and a ROI below the floor
C9_Witness ==
    /\ Returned
    /\ ReasonsOf(R) = <<"RESTRICTED", "HIGH_BSR", "LOW_ROI">>
    /\ R.reason = <<"Skip: ", "Product is restricted", ", ", "BSR too high",
                    ", ", "ROI below threshold">>

\* C10: with both prices present estimated_roi, estimated_profit and
\* max_buy_price are populated whatever the verdict; with either price unset
\* all three are null and LOW_ROI is not recorded.
C10_RoiNumbersIffBothPrices ==
    Returned =>
        IF product.current_price # None /\ product.source_price # None
        THEN /\ R.estimated_roi # None
             /\ R.estimated_profit # None
             /\ R.max_buy_price # None
        ELSE /\ R.estimated_roi = None
             /\ R.estimated_profit = None
             /\ R.max_buy_price = None
             /\ "LOW_ROI" \notin Range(ReasonsOf(R))

\* the low-ROI scenario of the tests: a SKIP for LOW_ROI alone that carries
\* the numbers
C10_Witness ==
    /\ Returned
    /\ product.current_price = Some(1299) /\ product.source_price = Some(1099)
    /\ R.decision = "SKIP"
    /\ ReasonsOf(R) = <<"LOW_ROI">>
    /\ R.estimated_roi = Some(-313)
    /\ R.estimated_profit = Some(-344)
    /\ R.max_buy_price # None

----------------------------------------------------------------------------
(* SpecFee: FeeCalculator.calculate_fees, FeeCalculator.calculate_profit   *)
(* and DecisionEngine._calculate_roi, each called once, on a wide range of *)
(* prices.  The prices are those of `product`, the weight is `weight`.  *)

\* sell prices of $0.00, $0.01, ... up to MaxSellCents cents (the minimum
\* referral fee applies below $2.00)
MaxSellCents == 220

\* and $8.03 (a ROI of 29.96% on $2.57), $12.10, $12.30, $12.90 (fees that
\* tie at half a cent), $12.99, $24.99
SellPrices == (0..MaxSellCents) \cup {803, 1210, 1230, 1290, 1299, 2499}

\* $0.00, $0.01, $0.16 (ROI percentages that tie), $2.57, $10.99
BuyPrices == {0, 1, 16, 257, 1099}

\* ounces on both sides of the two tier limits
Weights == {12, 16, 17, 32, 33}

\* a ProductData that carries both prices and nothing else
PricedProducts ==
    [ asin                   : {"1835080030"},
      eligibility_status     : {"GOOD"},
      bsr                    : {None},
      monthly_sales_estimate : {None},
      current_price          : {Some(c) : c \in SellPrices},
      price_trend            : {None},
      fba_seller_count       : {None},
      source_price           : {Some(c) : c \in BuyPrices},
      publisher              : {None},
      bsr_90_day_avg         : {None},
      price_90_day_avg       : {None},
      source_name            : {None},
      title                  : {None} ]

InitFee ==
    /\ config \in Configs
    /\ product \in PricedProducts
    /\ outcome = "pending"
    /\ result = None
    /\ weight \in Weights
    /\ calc = None
    /\ RepeatIdle /\ BridgeIdle /\ SAgentIdle

\* the price arguments of the call
Sell == product.current_price[1]

Buy == product.source_price[1]

\* FeeCalculator.calculate_fees(Sell, weight_oz = weight)
CalculateFees ==
    /\ calc = None
    /\ \E up \in TiesOf(Sell, Buy, weight, config.roi.preferred_percent) :
          calc' = Some([ op  |-> "calculate_fees",
                         val |-> calculate_fees(Sell, weight, up) ])
    /\ UNCHANGED <<engineVars, weight, repeatVars, bridgeVars, sagentVars>>

\* FeeCalculator.calculate_profit(Sell, Buy, weight_oz = weight)
CalculateProfit ==
    /\ calc = None
    /\ \E up \in TiesOf(Sell, Buy, weight, config.roi.preferred_percent) :
          calc' = Some([ op  |-> "calculate_profit",
                         val |-> calculate_profit(Sell, Buy, weight, up) ])
    /\ UNCHANGED <<engineVars, weight, repeatVars, bridgeVars, sagentVars>>

\* DecisionEngine._calculate_roi(product)
CalculateRoi ==
    /\ calc = None
    /\ \E up \in AnalyzeTies(config, product) :
          calc' = Some([ op  |-> "_calculate_roi",
                         val |-> _calculate_roi(config, product, up) ])
    /\ UNCHANGED <<engineVars, weight, repeatVars, bridgeVars, sagentVars>>

NextFee == CalculateFees \/ CalculateProfit \/ CalculateRoi

SpecFee == InitFee /\ [][NextFee]_vars

\* the operation called has returned
Called(op) == calc # None /\ calc[1].op = op

\* what it returned
Val == calc[1].val

\* C11: calculate_profit with buy_price = 0 returns roi_percent = 0 for every
\* non-negative sell price, and the call raises nothing (it is never refused).
C11_ZeroCostRoiIsZero ==
    Buy = 0 =>
        /\ calc = None => ENABLED CalculateProfit
        /\ Called("calculate_profit") => Val.roi_percent = 0

\* a book that cost nothing and sells at a profit
C11_Witness ==
    /\ Called("calculate_profit")
    /\ Buy = 0 /\ Sell = 2499
    /\ Val.gross_profit > 0
    /\ Val.roi_percent = 0

Abs(x) == IF x < 0 THEN 0 - x ELSE x

\* C12: for a sale price > 0 and a cost > 0, the ROI percentage recomputed from
\* the reported numbers, estimated_profit / source_price * 100, differs from
\* the reported estimated_roi by at most 0.1 (one tenth of a percent; both
\* sides are multiplied by the cost).
C12_RoiMatchesProfitOverCost ==
    (Called("_calculate_roi") /\ Sell > 0 /\ Buy > 0)
        => Abs(Val.profit[1] * 100 * Tenths - Val.roi[1] * Buy) <= Buy

\* a ROI that is not a whole number of tenths before it is rounded
C12_Witness ==
    /\ Called("_calculate_roi")
    /\ Sell = 2499 /\ Buy = 1099
    /\ Val.profit # None /\ Val.roi # None
    /\ Val.profit[1] * 100 * Tenths # Val.roi[1] * Buy

----------------------------------------------------------------------------
(* Properties of analyze, continued (specification Spec) *)

\* the policy flag of the engine's config; a config file may leave it out
AllowNeedApproval ==
    /\ "allow_need_approval" \in DOMAIN config.eligibility
    /\ config.eligibility.allow_need_approval

\* C14: a NEED_APPROVAL product under allow_need_approval false (or absent)
\* records APPROVAL_UNLIKELY, and when every other check passes the result is
\* SKIP with skip_reasons [APPROVAL_UNLIKELY]; under allow_need_approval true
\* the eligibility check records no reason for it.
C14_NeedApprovalPolicy ==
    (Returned /\ product.eligibility_status = "NEED_APPROVAL") =>
        IF AllowNeedApproval
        THEN ReasonsOf(R) = SelectSeq(C9_CheckOrder, C9_Fails)
             /\ Range(ReasonsOf(R)) \cap {"APPROVAL_UNLIKELY", "RESTRICTED",
                                           "UNKNOWN_ELIGIBILITY"} = {}
        ELSE /\ "APPROVAL_UNLIKELY" \in Range(ReasonsOf(R))
             /\ (\A c \in Range(C9_CheckOrder) \ {"APPROVAL_UNLIKELY"} : ~C9_Fails(c))
                   => /\ R.decision = "SKIP"
                      /\ ReasonsOf(R) = <<"APPROVAL_UNLIKELY">>

\* an approval-gated product on which every optional field is set and every
\* other check passes, under a config that does not allow such products
C14_Witness ==
    /\ Returned
    /\ product.eligibility_status = "NEED_APPROVAL"
    /\ ~AllowNeedApproval
    /\ \A f \in OptionalFields : product[f] # None
    /\ R.decision = "SKIP"
    /\ ReasonsOf(R) = <<"APPROVAL_UNLIKELY">>

----------------------------------------------------------------------------
(* Properties of the fee calculations, continued (specification SpecFee) *)

\* C15: max_buy_price is (current_price - total fees at current_price)
\* / (1 + preferred_percent / 100) rounded to the nearest cent, the total fees
\* being those that the reported profit accounts for too; the divisor is the
\* preferred ROI, not the minimum one, and the value is the same for every
\* source_price, whether or not LOW_ROI is recorded.
C15_MaxBuyPrice ==
    Called("_calculate_roi") =>
        LET target     == 100 + config.roi.preferred_percent
            total_fees == Sell - Buy - Val.profit[1]
        IN  /\ 2 * Abs(total_fees * 100 - (Max(Sell * 15, 30 * 100) + (322 + 27) * 100))
                  <= 100
            /\ 2 * Abs(Val.max_buy_price[1] * target - (Sell - total_fees) * 100)
                  <= target
            /\ \A up \in AnalyzeTies(config, product) :
                  _calculate_roi(config, product, up) = Val =>
                      \A b \in BuyPrices :
                      \A u2 \in { v \in Ties :
                                     /\ v.total_fees = up.total_fees
                                     /\ v.max_buy_price = up.max_buy_price } :
                          _calculate_roi(config,
                                         [product EXCEPT !.source_price = Some(b)],
                                         u2).max_buy_price
                              = Val.max_buy_price

\* the low-ROI scenario of the tests: LOW_ROI is recorded and the max-buy
\* price is (12.99 - 5.44) / 1.5 = 5.03
C15_Witness ==
    /\ Called("_calculate_roi")
    /\ config = DefaultConfig
    /\ Sell = 1299 /\ Buy = 1099
    /\ Val.skip_reason = Some("LOW_ROI")
    /\ Val.max_buy_price = Some(503)

\* C16: calculate_fees returns referral_fee = max(sell_price * 0.15, 0.30) (to
\* the cent), fba_fee = 3.22 up to 16 oz, 4.95 above 16 and up to 32 oz, 5.95
\* otherwise, inbound_fee = 0.27, and total_fees equal to the sum of these
\* three components.
C16_TotalIsSumOfComponents ==
    Called("calculate_fees") =>
        /\ 2 * Abs(Val.referral_fee * 100 - Max(Sell * 15, 30 * 100)) <= 100
        /\ Val.fba_fee = IF weight <= 16 THEN 322
                         ELSE IF weight <= 32 THEN 495 ELSE 595
        /\ Val.inbound_fee = 27
        /\ Val.total_fees = Val.referral_fee + Val.fba_fee + Val.inbound_fee

\* n/d rounded half-up to an integer: a tie goes up, and for a negative value
\* either up or away from zero (both conventions are called half-up)
HalfUp(n, d) ==
    IF n >= 0 THEN { (2 * n + d) \div (2 * d) }
    ELSE { (2 * n + d) \div (2 * d), 0 - ((2 * (0 - n) + d) \div (2 * d)) }

\* C17: the reported gross_profit is the half-up rounding to the cent of
\* (sell_price - unrounded total fees - buy_price), and the reported
\* max_buy_price that of (sell_price - unrounded total fees)
\* / (1 + target ROI): no rounded intermediate value enters them.
C17_RoundedAtOutputOnly ==
    /\ Called("calculate_profit") =>
          Val.gross_profit
            \in HalfUp(Sell * FeeScale - total_fees_raw(Sell, weight) - Buy * FeeScale,
                       FeeScale)
    /\ Called("_calculate_roi") =>
          /\ Val.profit[1]
                \in HalfUp(Sell * FeeScale - total_fees_raw(Sell, DefaultWeightOz)
                             - Buy * FeeScale,
                           FeeScale)
          /\ Val.max_buy_price[1]
                \in HalfUp((Sell * FeeScale - total_fees_raw(Sell, DefaultWeightOz)) * 100,
                           FeeScale * (100 + config.roi.preferred_percent))

----------------------------------------------------------------------------
(* SpecRepeat: one engine, on which analyze is called several times, on    *)
(* the same ProductData or on another one.  Floating-point arithmetic is   *)
(* deterministic: the ties of one pair of prices are resolved the same way *)
(* at every call, by `fp`.                                                 *)

\* at most this many analyze calls
MaxCalls == 3

\* ProductData with the same prices ($12.10, whose fees tie, and $4.00), with
\* and without a low velocity and a declining price
RepeatProducts ==
    [ asin                   : {"1835080030"},
      eligibility_status     : {"GOOD"},
      bsr                    : {Some(1000000)},
      monthly_sales_estimate : {None, Some(5)},
      current_price          : {Some(1210)},
      price_trend            : {Some("stable"), Some("declining")},
      fba_seller_count       : {None},
      source_price           : {Some(400)},
      publisher              : {None},
      bsr_90_day_avg         : {None},
      price_90_day_avg       : {None},
      source_name            : {None},
      title                  : {None} ]

InitRepeat ==
    /\ config \in Configs
    /\ product \in RepeatProducts
    /\ outcome = "pending"
    /\ result = None
    /\ calls = <<>>
    /\ fp \in AnalyzeTies(config, product)
    /\ FeeIdle /\ BridgeIdle /\ SAgentIdle

\* faulty variant: the confidence is kept on the engine between the calls
AnalyzeCallKeepingConfidence ==
    /\ Len(calls) < MaxCalls
    /\ LET r  == analyze(config, product, fp)
           r2 == [r EXCEPT !.confidence =
                     IF result = None THEN r.confidence
                     ELSE (r.confidence \div 1000) * (result[1].confidence \div 1000)]
       IN  /\ result' = Some(r2)
           /\ calls' = Append(calls, [product |-> product, result |-> r2])
    /\ outcome' = "returned"
    /\ UNCHANGED <<config, product, fp, feeVars, bridgeVars, sagentVars>>

\* engine.analyze(product), on the engine's config
AnalyzeCall ==
    /\ Len(calls) < MaxCalls
    /\ LET r == analyze(config, product, fp)
       IN  /\ result' = Some(r)
           /\ calls' = Append(calls, [product |-> product, result |-> r])
    /\ outcome' = "returned"
    /\ UNCHANGED <<config, product, fp, feeVars, bridgeVars, sagentVars>>

\* the caller builds another ProductData
BuildProduct ==
    /\ outcome = "returned"
    /\ product' \in RepeatProducts \ {product}
    /\ outcome' = "pending"
    /\ UNCHANGED <<config, result, calls, fp, feeVars, bridgeVars, sagentVars>>

NextRepeat == AnalyzeCall \/ BuildProduct

SpecRepeat == InitRepeat /\ [][NextRepeat]_vars

----------------------------------------------------------------------------
(* SpecBridge: src/f-agent/src/eligibility/extension_bridge.py and         *)
(* FAgent.analyze_book (src/f-agent/src/main.py, no Keepa client).  Time   *)
(* passes in steps of 8 hours; `now` is UTC, datetime.now() is local time. *)

\* the clock stops after this many steps
MaxTicks == 4

\* the agent analyses this many books one by one
MaxLog == 1

\* local time minus UTC, in hours: America/Los_Angeles, UTC, Asia/Shanghai
TzOffsets == {0 - 8, 0, 8}

\* max_cache_age_hours: int = 24
max_cache_age_hours == 24

\* the statuses of the exported results
ImportStatuses == {"GOOD", "RESTRICTED"}

\* datetime.now(): naive local time
LocalNow == now + tz_offset

\* an item of the export file: the first ASIN with either status, checked
\* now or 8 hours ago ("...Z") or without a checkedAt; the second ASIN GOOD,
\* checked now
Items ==
    [ asin      : {"1835080030"},
      status    : ImportStatuses,
      checkedAt : {None, Some(now)} \cup (IF now >= 8 THEN {Some(now - 8)} ELSE {}) ]
      \cup
    [ asin      : {"0134685997"},
      status    : {"GOOD"},
      checkedAt : {Some(now)} ]

\* the export files: no result, one, or two that differ in ASIN or status
ImportLists ==
    {<<>>} \cup {<<i>> : i \in Items}
      \cup { <<i, j>> : i \in {x \in Items : x.asin = "1835080030"},
                       j \in {x \in Items : x.asin # "1835080030"
                                              \/ x.status = "RESTRICTED"} }

\* import_from_extension: the EligibilityResult of an item; a missing
\* checkedAt does not parse and becomes datetime.now()
result_of_item(item) ==
    IF item.checkedAt = None
    THEN [ asin |-> item.asin, status |-> item.status,
           checked_at |-> LocalNow, tzinfo |-> FALSE ]
    ELSE [ asin |-> item.asin, status |-> item.status,
           checked_at |-> item.checkedAt[1], tzinfo |-> TRUE ]

\* EligibilityCache.set: INSERT OR REPLACE on the primary key asin
cache_set(c, r) == [c EXCEPT ![r.asin] = Some(r)]

RECURSIVE import_items(_, _)
\* import_from_extension: the loop over data['results']
import_items(c, items) ==
    IF items = <<>> THEN c
    ELSE import_items(cache_set(c, result_of_item(items[1])), Tail(items))

\* EligibilityResult.is_stale: tzinfo is dropped, the fields are compared
\* with local time
is_stale(r, max_age_hours) == LocalNow - r.checked_at > max_age_hours

\* check_eligibility(asin).status
check_eligibility(asin) ==
    IF cache[asin] # None /\ ~is_stale(cache[asin][1], max_cache_age_hours)
    THEN cache[asin][1].status
    ELSE "NOT_CHECKED"

\* check_batch(asins): the status of each result
check_batch(asins) ==
    [ a \in asins |->
        IF cache[a] # None /\ ~is_stale(cache[a][1], max_cache_age_hours)
        THEN cache[a][1].status
        ELSE "NOT_CHECKED" ]

InitBridge ==
    /\ cache = [a \in Asins |-> None]
    /\ now = 0
    /\ tz_offset \in TzOffsets
    /\ answer = None
    /\ results_log = <<>>
    /\ EngineIdle /\ FeeIdle /\ RepeatIdle /\ SAgentIdle

\* 8 hours pass; the value a call returned before is out of date
Tick ==
    /\ now < 8 * MaxTicks
    /\ now' = now + 8
    /\ answer' = None
    /\ UNCHANGED <<cache, tz_offset, results_log, engineVars, feeVars, repeatVars, sagentVars>>

\* bridge.import_from_extension(filepath): the results are cached and returned
ImportFromExtension ==
    /\ \E items \in ImportLists :
          /\ cache' = import_items(cache, items)
          /\ answer' = Some([ op       |-> "import_from_extension",
                              statuses |-> <<>>,
                              verdict  |-> None,
                              results  |-> [i \in 1..Len(items) |-> result_of_item(items[i])] ])
    /\ UNCHANGED <<now, tz_offset, results_log, engineVars, feeVars, repeatVars, sagentVars>>

\* bridge.check_eligibility(asin)
CheckEligibility ==
    /\ \E a \in Asins :
          answer' = Some([ op       |-> "check_eligibility",
                           statuses |-> [x \in {a} |-> check_eligibility(a)],
                           verdict  |-> None,
                           results  |-> <<>> ])
    /\ UNCHANGED <<cache, now, tz_offset, results_log, engineVars, feeVars, repeatVars, sagentVars>>

\* bridge.check_batch(asins)
CheckBatch ==
    /\ \E asins \in SUBSET Asins :
          answer' = Some([ op       |-> "check_batch",
                           statuses |-> check_batch(asins),
                           verdict  |-> None,
                           results  |-> <<>> ])
    /\ UNCHANGED <<cache, now, tz_offset, results_log, engineVars, feeVars, repeatVars, sagentVars>>

\* FAgent.analyze_book(asin): the decision, decision_reason and
\* eligibility_status of the AnalysisResult
analyze_book(asin) ==
    LET eligibility_status == check_eligibility(asin)
        p == [ asin |-> asin, eligibility_status |-> eligibility_status,
               bsr |-> None, monthly_sales_estimate |-> None,
               current_price |-> None, price_trend |-> None,
               fba_seller_count |-> None, source_price |-> None,
               publisher |-> None,
               bsr_90_day_avg |-> None, price_90_day_avg |-> None,
               source_name |-> None, title |-> None ]
        decision_result == analyze(config, p, NoTieUp)
    IN  [ asin               |-> asin,
          decision           |-> decision_result.decision,
          decision_reason    |-> decision_result.reason,
          eligibility_status |-> eligibility_status ]

\* agent.analyze_book(asin)
AnalyzeBook ==
    /\ Len(results_log) < MaxLog
    /\ \E a \in Asins :
          /\ answer' = Some([ op       |-> "analyze_book",
                              statuses |-> [x \in {a} |-> analyze_book(a).eligibility_status],
                              verdict  |-> Some(analyze_book(a)),
                              results  |-> <<analyze_book(a)>> ])
          /\ results_log' = Append(results_log, analyze_book(a))
    /\ UNCHANGED <<cache, now, tz_offset, engineVars, feeVars, repeatVars, sagentVars>>

\* _analyze_with_cached_data(asin, None, None, eligibility): eligibility is
\* the status of the EligibilityResult, or None
_analyze_with_cached_data(asin, eligibility) ==
    LET eligibility_status == IF eligibility # None THEN eligibility[1] ELSE "UNKNOWN"
        p == [ asin |-> asin, eligibility_status |-> eligibility_status,
               bsr |-> None, monthly_sales_estimate |-> None,
               current_price |-> None, price_trend |-> None,
               fba_seller_count |-> None, source_price |-> None,
               publisher |-> None,
               bsr_90_day_avg |-> None, price_90_day_avg |-> None,
               source_name |-> None, title |-> None ]
        decision_result == analyze(config, p, NoTieUp)
    IN  [ asin               |-> asin,
          decision           |-> decision_result.decision,
          decision_reason    |-> decision_result.reason,
          eligibility_status |-> eligibility_status ]

\* dict.get(asin) on the dict check_batch returned
eligibility_get(eligibility_data, asin) ==
    IF asin \in DOMAIN eligibility_data THEN Some(eligibility_data[asin]) ELSE None

\* analyze_books(asins): the list of the results, one for each ASIN in order
analyze_books(asins) ==
    LET eligibility_data == check_batch(Range(asins))
    IN  [ i \in 1..Len(asins) |->
            _analyze_with_cached_data(asins[i],
                                      eligibility_get(eligibility_data, asins[i])) ]

\* the lists of ASINs of a batch: none, one, two (the same one twice allowed)
AsinLists == {<<>>} \cup {<<a>> : a \in Asins} \cup {<<a, b>> : a \in Asins, b \in Asins}

\* agent.analyze_books(asins)
AnalyzeBooks ==
    /\ \E asins \in AsinLists :
          answer' = Some([ op       |-> "analyze_books",
                           statuses |-> check_batch(Range(asins)),
                           verdict  |-> None,
                           results  |-> analyze_books(asins) ])
    /\ UNCHANGED <<cache, now, tz_offset, results_log, engineVars, feeVars, repeatVars, sagentVars>>

NextBridge ==
    \/ Tick \/ ImportFromExtension \/ CheckEligibility \/ CheckBatch
    \/ AnalyzeBook \/ AnalyzeBooks

SpecBridge == InitBridge /\ [][NextBridge]_vars

\* the time since the moment an entry's checked_at denotes
AgeOf(r) == IF r.tzinfo THEN now - r.checked_at ELSE LocalNow - r.checked_at

\* C18: check_eligibility and check_batch return NOT_CHECKED for every ASIN
\* that has no cache entry or whose entry is older than 24 hours, and the
\* verdict of analyze_book for such an ASIN is SKIP for UNKNOWN_ELIGIBILITY.
C18_MissingOrExpiredIsNotChecked ==
    answer # None =>
        \A a \in DOMAIN answer[1].statuses :
            (cache[a] = None \/ AgeOf(cache[a][1]) > 24) =>
                /\ answer[1].statuses[a] = "NOT_CHECKED"
                /\ answer[1].verdict # None =>
                      /\ answer[1].verdict[1].decision = "SKIP"
                      /\ answer[1].verdict[1].decision_reason
                            = <<"Skip: ", SkipReason.UNKNOWN_ELIGIBILITY>>

----------------------------------------------------------------------------
(* SpecSAgent: src/s-agent/src/models/status.py, Book.update_status and    *)
(* SAgent.add_book / SAgent.update_status (src/s-agent/src/main.py), on    *)
(* one tracked book.  A StatusEvent is modelled by its status.             *)

\* a history holds at most this many events
MaxEvents == 13

\* class BookStatus
BookStatus ==
    [ ORDERED              |-> "ordered",
      SHIPPED_TO_YOU       |-> "shipped_to_you",
      IN_TRANSIT_TO_YOU    |-> "in_transit_to_you",
      DELIVERED_TO_YOU     |-> "delivered_to_you",
      RECEIVED             |-> "received",
      PROCESSING           |-> "processing",
      PROCESSED            |-> "processed",
      FBA_SHIPMENT_CREATED |-> "fba_shipment_created",
      FBA_SHIPPED          |-> "fba_shipped",
      FBA_IN_TRANSIT       |-> "fba_in_transit",
      FBA_DELIVERED        |-> "fba_delivered",
      FBA_RECEIVING        |-> "fba_receiving",
      FBA_AVAILABLE        |-> "fba_available",
      RESERVED             |-> "reserved",
      SOLD                 |-> "sold",
      COMPLETE             |-> "complete",
      RETURNED             |-> "returned",
      STRANDED             |-> "stranded",
      LOST                 |-> "lost",
      CANCELLED            |-> "cancelled" ]

\* the members of the enumeration
BookStatuses == { BookStatus[k] : k \in DOMAIN BookStatus }

VALID_TRANSITIONS ==
    LET B == BookStatus
    IN  B.ORDERED :> {B.SHIPPED_TO_YOU, B.CANCELLED, B.LOST}
     @@ B.SHIPPED_TO_YOU :> {B.IN_TRANSIT_TO_YOU, B.DELIVERED_TO_YOU, B.LOST}
     @@ B.IN_TRANSIT_TO_YOU :> {B.DELIVERED_TO_YOU, B.LOST}
     @@ B.DELIVERED_TO_YOU :> {B.RECEIVED, B.LOST}
     @@ B.RECEIVED :> {B.PROCESSING, B.PROCESSED, B.CANCELLED}
     @@ B.PROCESSING :> {B.PROCESSED, B.CANCELLED}
     @@ B.PROCESSED :> {B.FBA_SHIPMENT_CREATED}
     @@ B.FBA_SHIPMENT_CREATED :> {B.FBA_SHIPPED}
     @@ B.FBA_SHIPPED :> {B.FBA_IN_TRANSIT, B.FBA_DELIVERED, B.LOST}
     @@ B.FBA_IN_TRANSIT :> {B.FBA_DELIVERED, B.LOST}
     @@ B.FBA_DELIVERED :> {B.FBA_RECEIVING, B.LOST}
     @@ B.FBA_RECEIVING :> {B.FBA_AVAILABLE, B.STRANDED, B.LOST}
     @@ B.FBA_AVAILABLE :> {B.RESERVED, B.SOLD, B.STRANDED}
     @@ B.RESERVED :> {B.SOLD, B.FBA_AVAILABLE}
     @@ B.SOLD :> {B.COMPLETE, B.RETURNED}
     @@ B.RETURNED :> {B.FBA_AVAILABLE, B.COMPLETE}
     @@ B.STRANDED :> {B.FBA_AVAILABLE, B.CANCELLED}
     @@ B.COMPLETE :> {}
     @@ B.LOST :> {}
     @@ B.CANCELLED :> {}

\* faulty variant: nothing is ever sold or written off
valid_next_unsellable(from_status) ==
    IF from_status \in DOMAIN VALID_TRANSITIONS
    THEN VALID_TRANSITIONS[from_status] \ {BookStatus.SOLD, BookStatus.CANCELLED}
    ELSE {}

\* VALID_TRANSITIONS.get(from_status, set())
valid_next(from_status) ==
    IF from_status \in DOMAIN VALID_TRANSITIONS
    THEN VALID_TRANSITIONS[from_status] ELSE {}

\* faulty variant: every status but the current one can follow
can_transition_any(from_status, to_status) == to_status # from_status

can_transition(from_status, to_status) == to_status \in valid_next(from_status)

\* StatusHistory.current_status: None on an empty history
current_status(events) ==
    IF events = <<>> THEN None ELSE Some(events[Len(events)])

\* StatusHistory.add_event: a ValueError, or the events with one appended
add_event(events, status) ==
    IF events # <<>> /\ ~can_transition(current_status(events)[1], status)
    THEN [ raised |-> TRUE,  events |-> events ]
    ELSE [ raised |-> FALSE, events |-> Append(events, status) ]

\* Book.update_status on the book b: its history goes through add_event
update_status(b, new_status) ==
    LET r == add_event(b.events, new_status)
    IN  [ raised |-> r.raised, book |-> [b EXCEPT !.events = r.events] ]

\* Book.status
status_of(b) == current_status(b.events)

\* _save_book: the status column of the book's row
save_book(b) == [b EXCEPT !.saved = status_of(b)]

InitSAgent ==
    /\ book = None
    /\ sa_ret = None
    /\ EngineIdle /\ FeeIdle /\ RepeatIdle /\ BridgeIdle

\* Book(...): the fields the S-Agent operations write, at their defaults
\* (one field stands for each group an operation writes together)
NewBook ==
    [ events |-> <<>>, saved |-> None,
      source_tracking |-> "", actual_condition |-> "", listing_price |-> 0,
      fba_shipment_id |-> "", fba_tracking |-> "", sale_order_id |-> "" ]

\* what a call that ended in `raised` (None or the exception) reports
Ret(op, new_status, old_status, raised, emitted) ==
    Some([ op         |-> op,
           new_status |-> new_status,
           old_status |-> old_status,
           raised     |-> raised # None,
           exception  |-> raised,
           emitted    |-> emitted ])

\* book = agent.add_book(asin=...): a Book whose first event is ORDERED
AddBook ==
    /\ book = None
    /\ LET r == update_status(NewBook, BookStatus.ORDERED)
       IN  /\ book' = Some(save_book(r.book))
           /\ sa_ret' = Ret("add_book", BookStatus.ORDERED, None, None, None)
    /\ UNCHANGED <<engineVars, feeVars, repeatVars, bridgeVars>>

\* SAgent.update_status(book_id, new_status), called by `op` on the tracked
\* book b: ValueError when the transition is invalid; otherwise the book is
\* saved and the handlers are called with (book, old_status, new_status)
UpdateStatusOf(op, b, new_status) ==
    LET old_status == status_of(b)
        r == update_status(b, new_status)
    IN  IF r.raised
        THEN /\ book' = Some(b)
             /\ sa_ret' = Ret(op, new_status, old_status, Some("ValueError"), None)
        ELSE /\ book' = Some(save_book(r.book))
             /\ sa_ret' = Ret(op, new_status, old_status, None,
                              Some(<<old_status[1], new_status>>))

\* the history has room for one more event
Room == book # None => Len(book[1].events) < MaxEvents

\* agent.update_status(book_id, new_status): ValueError("Book not found")
\* when the book is not tracked
UpdateStatus ==
    /\ Room
    /\ \E new_status \in BookStatuses :
          IF book = None
          THEN /\ sa_ret' = Ret("update_status", new_status, None, Some("ValueError"), None)
               /\ book' = book
          ELSE UpdateStatusOf("update_status", book[1], new_status)
    /\ UNCHANGED <<engineVars, feeVars, repeatVars, bridgeVars>>

\* a mark_* operation: get_book, the field writes (if it `writes`), then
\* update_status; on an untracked book a field write raises AttributeError
\* and update_status raises ValueError("Book not found")
Mark(op, writes, written, new_status) ==
    /\ Room
    /\ IF book = None
       THEN /\ sa_ret' = Ret(op, new_status, None,
                             IF writes THEN Some("AttributeError")
                             ELSE Some("ValueError"), None)
            /\ book' = book
       ELSE UpdateStatusOf(op, written, new_status)
    /\ UNCHANGED <<engineVars, feeVars, repeatVars, bridgeVars>>

\* the tracked book as it is
Unwritten == IF book = None THEN NewBook ELSE book[1]

\* the tracked book with a field written
Written(field, value) == [Unwritten EXCEPT ![field] = value]

\* agent.mark_shipped_to_you(book_id, tracking)
MarkShippedToYou ==
    Mark("mark_shipped_to_you", TRUE, Written("source_tracking", "1Z999"),
         BookStatus.SHIPPED_TO_YOU)

\* agent.mark_received(book_id, actual_condition): written when not empty
MarkReceived ==
    \E actual_condition \in {"", "Good"} :
        Mark("mark_received", actual_condition # "",
             IF actual_condition # ""
             THEN Written("actual_condition", actual_condition) ELSE Unwritten,
             BookStatus.RECEIVED)

\* agent.mark_processed(book_id, condition, listing_price)
MarkProcessed ==
    Mark("mark_processed", TRUE, Written("listing_price", 1299),
         BookStatus.PROCESSED)

\* agent.add_to_shipment(book_id, shipment_id): fba_tracking gets the default
AddToShipment ==
    Mark("add_to_shipment", TRUE,
         [Written("fba_shipment_id", "FBA15") EXCEPT !.fba_tracking = ""],
         BookStatus.FBA_SHIPMENT_CREATED)

\* agent.mark_fba_shipped(book_id): tracking keeps its default "", which is
\* not written
MarkFbaShipped ==
    LET tracking == ""
    IN  Mark("mark_fba_shipped", tracking # "",
             IF tracking # "" THEN Written("fba_tracking", tracking) ELSE Unwritten,
             BookStatus.FBA_SHIPPED)

\* agent.mark_available(book_id)
MarkAvailable ==
    Mark("mark_available", FALSE, Unwritten, BookStatus.FBA_AVAILABLE)

\* agent.mark_sold(book_id, sale_order_id, sale_price)
MarkSold ==
    Mark("mark_sold", TRUE, Written("sale_order_id", "113-7"), BookStatus.SOLD)

\* agent.mark_complete(book_id)
MarkComplete ==
    Mark("mark_complete", FALSE, Unwritten, BookStatus.COMPLETE)

NextSAgent ==
    \/ AddBook \/ UpdateStatus
    \/ MarkShippedToYou \/ MarkReceived \/ MarkProcessed \/ AddToShipment
    \/ MarkFbaShipped \/ MarkAvailable \/ MarkSold \/ MarkComplete

SpecSAgent == InitSAgent /\ [][NextSAgent]_vars

\* C19: directly after add_book, update_status(book.id, RECEIVED) is
\* accepted and leaves the book in status RECEIVED.
C19_ReceivedAfterAddBook ==
    [][ ( /\ sa_ret # None /\ sa_ret[1].op = "add_book"
          /\ sa_ret'[1].op = "update_status"
          /\ sa_ret'[1].new_status = BookStatus.RECEIVED )
        => /\ ~sa_ret'[1].raised
           /\ status_of(book'[1]) = Some(BookStatus.RECEIVED) ]_vars

\* C20: on a non-empty history add_event either appends exactly one event,
\* whose status is in VALID_TRANSITIONS[current status], and leaves the
\* earlier events unchanged, or raises ValueError and leaves the history and
\* the current status unchanged; so in every reachable history each
\* consecutive pair of events is a valid transition.
C20_AppendOnlyValidatedHistory ==
    /\ [][ book # None =>
             LET before == book[1].events
                 after  == book'[1].events
                 call   == sa_ret'[1]
             IN  \/ /\ ~call.raised
                    /\ Len(after) = Len(before) + 1
                    /\ SubSeq(after, 1, Len(before)) = before
                    /\ after[Len(after)] = call.new_status
                    /\ after[Len(after)] \in VALID_TRANSITIONS[before[Len(before)]]
                 \/ /\ call.raised
                    /\ after = before
                    /\ status_of(book'[1]) = status_of(book[1]) ]_vars
    /\ [](book # None =>
             \A i \in 1..(Len(book[1].events) - 1) :
                 book[1].events[i + 1] \in VALID_TRANSITIONS[book[1].events[i]])

\* a history that went through a cycle, on which the last call was rejected
C20_Witness ==
    /\ book # None
    /\ Len(book[1].events) = 12
    /\ book[1].events[10] = BookStatus.FBA_AVAILABLE
    /\ book[1].events[11] = BookStatus.RESERVED
    /\ status_of(book[1]) = Some(BookStatus.FBA_AVAILABLE)
    /\ sa_ret[1].op = "update_status"
    /\ sa_ret[1].raised
    /\ sa_ret[1].new_status = BookStatus.COMPLETE

----------------------------------------------------------------------------
(* Properties of the lifecycle, continued (specification SpecSAgent) *)

\* BookStatus.is_active: not one of the terminal_statuses
terminal_statuses ==
    { BookStatus.COMPLETE, BookStatus.RETURNED,
      BookStatus.LOST, BookStatus.CANCELLED }

is_active(status) == status \notin terminal_statuses

\* Book.is_active: True while the book has no status
book_is_active(b) == IF status_of(b) = None THEN TRUE ELSE is_active(status_of(b)[1])

\* C21: every status is_active() classifies as terminal has no valid next
\* status, so once a book is not active no update_status call changes its
\* status or makes it active again.
C21_TerminalStatusesAreFinal ==
    /\ [](\A s \in terminal_statuses : VALID_TRANSITIONS[s] = {})
    /\ [][ (book # None /\ ~book_is_active(book[1]))
             => /\ status_of(book'[1]) = status_of(book[1])
                /\ ~book_is_active(book'[1]) ]_vars

----------------------------------------------------------------------------
(* Properties of analyze, continued (specification Spec) *)

\* C22: HIGH_BSR, LOW_SALES and TOO_MUCH_COMPETITION are recorded iff the
\* field is present and rank > max_rank, monthly sales < min_monthly_sales,
\* FBA seller count > max_fba_sellers respectively; a value equal to its
\* threshold records no failure.
C22_StrictThresholds ==
    Returned =>
        LET reasons == Range(ReasonsOf(R))
        IN  /\ "HIGH_BSR" \in reasons
                <=> (product.bsr # None /\ product.bsr[1] > config.bsr.max_rank)
            /\ "LOW_SALES" \in reasons
                <=> /\ product.monthly_sales_estimate # None
                    /\ product.monthly_sales_estimate[1]
                          < config.sales.min_monthly_sales * Tenths
            /\ "TOO_MUCH_COMPETITION" \in reasons
                <=> /\ product.fba_seller_count # None
                    /\ product.fba_seller_count[1] > config.competition.max_fba_sellers
            /\ product.bsr = Some(config.bsr.max_rank) => "HIGH_BSR" \notin reasons
            /\ product.monthly_sales_estimate
                  = Some(config.sales.min_monthly_sales * Tenths)
                  => "LOW_SALES" \notin reasons
            /\ product.fba_seller_count = Some(config.competition.max_fba_sellers)
                  => "TOO_MUCH_COMPETITION" \notin reasons

\* rank, sales and seller count each exactly at its threshold: a BUY
C22_Witness ==
    /\ Returned
    /\ config = DefaultConfig
    /\ product.bsr = Some(2000000)
    /\ product.monthly_sales_estimate = Some(10)
    /\ product.fba_seller_count = Some(10)
    /\ ReasonsOf(R) = <<>>
    /\ R.decision = "BUY"
    /\ R.confidence = ConfidenceOne

\* C30: when current_price is present and source_price = 0, estimated_roi is
\* 0 and, for a positive roi.minimum_percent, LOW_ROI is recorded, so the
\* verdict is SKIP (never BUY or WATCH), however large the sale price is.
C30_ZeroCostIsSkip ==
    ( /\ Returned
      /\ product.current_price # None
      /\ product.source_price = Some(0)
      /\ config.roi.minimum_percent > 0 )
    => /\ R.estimated_roi = Some(0)
       /\ "LOW_ROI" \in Range(ReasonsOf(R))
       /\ R.decision = "SKIP"

\* a free book that sells for $24.99 at a profit and fails nothing else
C30_Witness ==
    /\ Returned
    /\ product.source_price = Some(0)
    /\ product.current_price = Some(2499)
    /\ R.estimated_profit # None /\ R.estimated_profit[1] > 0
    /\ ReasonsOf(R) = <<"LOW_ROI">>
    /\ R.decision = "SKIP"

\* ProductData fields that analyze does not read, set by a caller
UnreadFields ==
    [ asin             : Asins,
      bsr_90_day_avg   : {None, Some(1500000)},
      price_90_day_avg : {None, Some(999)},
      source_name      : {None, Some("thriftbooks")},
      title            : {None, Some("Learning Python")} ]

\* the ProductData that differ from p only in fields analyze does not read
DifferingProducts(p) ==
    { [p EXCEPT !.asin = u.asin, !.bsr_90_day_avg = u.bsr_90_day_avg,
                !.price_90_day_avg = u.price_90_day_avg,
                !.source_name = u.source_name, !.title = u.title] :
      u \in UnreadFields }

\* config values that analyze does not read, set in a config file
UnreadValues ==
    [ min_selling_price          : {500, 5000},
      preferred_max              : {1, 5000000},
      preferred_monthly_sales    : {0, 100},
      preferred_fba_sellers      : {0, 100},
      allowed_statuses           : {{}, {"GOOD", "NEED_APPROVAL", "RESTRICTED"}},
      approval_success_threshold : {0, 100} ]

\* cfg with the values of u in place of its own
WithValues(cfg, u) ==
    [ eligibility |->
          [ k \in DOMAIN cfg.eligibility \cup {"approval_success_threshold"} |->
                IF k = "allowed_statuses" THEN u.allowed_statuses
                ELSE IF k = "approval_success_threshold"
                     THEN u.approval_success_threshold
                     ELSE cfg.eligibility[k] ],
      bsr         |-> [cfg.bsr EXCEPT !.preferred_max = u.preferred_max],
      sales       |-> [cfg.sales EXCEPT
                          !.preferred_monthly_sales = u.preferred_monthly_sales],
      roi         |-> cfg.roi,
      competition |-> [cfg.competition EXCEPT
                          !.preferred_fba_sellers = u.preferred_fba_sellers],
      price       |-> [cfg.price EXCEPT !.min_selling_price = u.min_selling_price] ]

\* the configs that differ from cfg only in values analyze does not read
DifferingConfigs(cfg) == {cfg} \cup {WithValues(cfg, u) : u \in UnreadValues}

\* ProductData on both sides of the sale-price minimum and of the approval
\* policy, with and without a cost
UnreadBaseProducts ==
    [ asin                   : {"1835080030"},
      eligibility_status     : {"GOOD", "NEED_APPROVAL"},
      bsr                    : {Some(1000000)},
      monthly_sales_estimate : {Some(10)},
      current_price          : {Some(1210), Some(2499)},
      price_trend            : {None},
      fba_seller_count       : {Some(10)},
      source_price           : {None, Some(1099)},
      publisher              : {None},
      bsr_90_day_avg         : {None},
      price_90_day_avg       : {None},
      source_name            : {None},
      title                  : {None} ]

\* an engine is constructed from a config file and a caller builds a
\* ProductData, both with any of the values analyze does not read
InitUnread ==
    /\ \E cfg \in Configs : config \in DifferingConfigs(cfg)
    /\ \E p \in UnreadBaseProducts : product \in DifferingProducts(p)
    /\ outcome = "pending"
    /\ result = None
    /\ FeeIdle /\ RepeatIdle /\ BridgeIdle /\ SAgentIdle

SpecUnread == InitUnread /\ [][Next]_vars

\* p with the fields analyze does not read at their defaults
ReadPartOfProduct(p) ==
    [p EXCEPT !.asin = "1835080030", !.bsr_90_day_avg = None,
              !.price_90_day_avg = None, !.source_name = None, !.title = None]

\* cfg with the values analyze does not read at fixed values
ReadPartOfConfig(cfg) ==
    WithValues(cfg, [ min_selling_price          |-> 500,
                      preferred_max              |-> 1,
                      preferred_monthly_sales    |-> 0,
                      preferred_fba_sellers      |-> 0,
                      allowed_statuses           |-> {},
                      approval_success_threshold |-> 0 ])

\* the verdict, the skip-reason list and the confidence of a DecisionResult
Outputs(r) == <<r.decision, r.skip_reasons, r.confidence>>

\* C29: the verdict, skip-reason list and confidence of analyze do not depend
\* on the ProductData fields asin, bsr_90_day_avg, price_90_day_avg, title,
\* source_name, nor on the config values price.min_selling_price,
\* bsr.preferred_max, sales.preferred_monthly_sales,
\* competition.preferred_fba_sellers, eligibility.allowed_statuses and
\* eligibility.approval_success_threshold.  Every analysis returns the three
\* outputs of the analysis of its read part (the same config and product
\* with those fields and values reset), so two analyses that differ only in
\* these, having the same read part, agree on all three.
C29_UnreadInputsDoNotMatter ==
    Returned =>
        \A up \in AnalyzeTies(config, product) :
            analyze(config, product, up) = R =>
                Outputs(analyze(ReadPartOfConfig(config),
                                ReadPartOfProduct(product), up)) = Outputs(R)

\* a book with a title, another ASIN and Keepa averages, whose sale price of
\* $12.10 is below the configured minimum of $50.00, is a BUY
C29_Witness ==
    /\ Returned
    /\ product.current_price = Some(1210)
    /\ config.price.min_selling_price = 5000
    /\ config.eligibility.allowed_statuses = {}
    /\ product.title = Some("Learning Python")
    /\ product.asin = "0134685997"
    /\ product.bsr_90_day_avg = Some(1500000)
    /\ config # ReadPartOfConfig(config)
    /\ product # ReadPartOfProduct(product)
    /\ R.decision = "BUY"

----------------------------------------------------------------------------
(* Properties of the fee calculations, continued (specification SpecFee) *)

\* C23: LOW_ROI is recorded exactly when both prices are present and the
\* computed ROI% (gross profit / cost x 100, 0 at cost 0) is strictly below
\* roi.minimum_percent: a ROI of 29.96% against a floor of 30 records it, a
\* ROI equal to the floor does not.
C23_LowRoiBelowFloor ==
    Called("_calculate_roi") =>
        LET floor == config.roi.minimum_percent
            below == IF Buy > 0 THEN Val.profit[1] * 100 < floor * Buy
                     ELSE 0 < floor
        IN  (Val.skip_reason = Some("LOW_ROI")) <=> below

----------------------------------------------------------------------------
(* Properties of the F-Agent, continued (specification SpecBridge) *)

\* [r for r in self.results_log if r.decision == decision]
with_decision(decision) ==
    SelectSeq(results_log, LAMBDA r : r.decision = decision)

get_buy_list == with_decision("BUY")

get_watch_list == with_decision("WATCH")

\* get_statistics: total, buys, skips, watches
get_statistics ==
    IF Len(results_log) = 0 THEN [ total |-> 0 ]
    ELSE [ total   |-> Len(results_log),
           buys    |-> Len(with_decision("BUY")),
           skips   |-> Len(with_decision("SKIP")),
           watches |-> Len(with_decision("WATCH")) ]

\* C24: results_log holds exactly one entry for every book analysed by
\* analyze_book or analyze_books, in call order: each call appends the
\* results it returns; and buys + skips + watches = total in get_statistics.
C24_LogHoldsEveryResult ==
    /\ [][ (answer' # None /\ answer'[1].op \in {"analyze_book", "analyze_books"})
             => results_log' = results_log \o answer'[1].results ]_vars
    /\ [](Len(results_log) > 0 =>
             /\ get_statistics.total = Len(results_log)
             /\ get_statistics.buys + get_statistics.skips
                   + get_statistics.watches = get_statistics.total
             /\ Len(get_buy_list) = get_statistics.buys
             /\ Len(get_watch_list) = get_statistics.watches)

\* the results of an import that are about the ASIN a
results_for(results, a) == SelectSeq(results, LAMBDA r : r.asin = a)

\* C25: the cache holds one entry per ASIN, the one written last: an import
\* leaves for each ASIN the last result it carries, older checked_at or not,
\* and check_eligibility returns the status of that entry as long as its
\* checked_at is at most 24 hours old.
C25_LastImportWins ==
    /\ [][ (answer' # None /\ answer'[1].op = "import_from_extension")
             => \A a \in Asins :
                   LET rs == results_for(answer'[1].results, a)
                   IN  IF rs = <<>> THEN cache'[a] = cache[a]
                       ELSE cache'[a] = Some(rs[Len(rs)]) ]_vars
    /\ [](\A a \in Asins :
             ( /\ answer # None /\ answer[1].op = "check_eligibility"
               /\ a \in DOMAIN answer[1].statuses
               /\ cache[a] # None /\ AgeOf(cache[a][1]) <= 24 )
             => answer[1].statuses[a] = cache[a][1].status)

----------------------------------------------------------------------------
(* Properties of the lifecycle, continued (specification SpecSAgent).  The *)
(* timestamp of an event is modelled by its position in the history.       *)

\* the positions of the events of a status
positions(events, status) == { i \in 1..Len(events) : events[i] = status }

\* faulty variant: only a book whose status is SOLD has a sale time
days_to_sell_while_sold(b) ==
    IF status_of(b) # Some(BookStatus.SOLD) THEN None
    ELSE LET available == positions(b.events, BookStatus.FBA_AVAILABLE)
             sale      == positions(b.events, BookStatus.SOLD)
         IN  IF available # {} /\ sale # {}
             THEN Some((CHOOSE i \in sale : \A j \in sale : j <= i)
                         - (CHOOSE i \in available : \A j \in available : i <= j))
             ELSE None

\* Book.days_to_sell: from the first FBA_AVAILABLE event to the last SOLD one
days_to_sell(b) ==
    IF status_of(b) \notin {Some(BookStatus.SOLD), Some(BookStatus.COMPLETE)}
    THEN None
    ELSE LET available == positions(b.events, BookStatus.FBA_AVAILABLE)
             sale      == positions(b.events, BookStatus.SOLD)
         IN  IF available # {} /\ sale # {}
             THEN Some((CHOOSE i \in sale : \A j \in sale : j <= i)
                         - (CHOOSE i \in available : \A j \in available : i <= j))
             ELSE None

\* C26: in every history a COMPLETE event is preceded by a SOLD event and
\* every SOLD event by an FBA_AVAILABLE event, so days_to_sell is not None
\* for a book whose status is SOLD or COMPLETE.
C26_SaleFollowsAvailability ==
    book # None =>
        LET events == book[1].events
        IN  /\ \A i \in positions(events, BookStatus.COMPLETE) :
                  \E j \in positions(events, BookStatus.SOLD) : j < i
            /\ \A i \in positions(events, BookStatus.SOLD) :
                  \E j \in positions(events, BookStatus.FBA_AVAILABLE) : j < i
            /\ status_of(book[1]) \in {Some(BookStatus.SOLD), Some(BookStatus.COMPLETE)}
                  => days_to_sell(book[1]) # None

\* a book sold, returned and written off: the sale is one event after the
\* availability
C26_Witness ==
    /\ book # None
    /\ Len(book[1].events) = 13
    /\ book[1].events[12] = BookStatus.RETURNED
    /\ status_of(book[1]) = Some(BookStatus.COMPLETE)
    /\ days_to_sell(book[1]) = Some(1)

RECURSIVE reachable_from(_)
\* the statuses a chain of valid transitions leads to from the statuses S
reachable_from(S) ==
    LET N == S \cup UNION { valid_next(x) : x \in S }
    IN  IF N = S THEN S ELSE reachable_from(N)

\* the statuses without outgoing transitions
final_statuses == { BookStatus.COMPLETE, BookStatus.LOST, BookStatus.CANCELLED }

\* C27: from every status a book reaches, one of COMPLETE, LOST, CANCELLED
\* is reachable through valid transitions, and those three are the only
\* statuses from which no update_status can succeed.
C27_NoDeadEnd ==
    book # None =>
        LET current == status_of(book[1])[1]
        IN  /\ reachable_from({current}) \cap final_statuses # {}
            /\ (\A new_status \in BookStatuses :
                    update_status(book[1], new_status).raised)
                  <=> current \in final_statuses
            /\ valid_next(current) = {} <=> current \in final_statuses

\* a reserved book: it can still be sold or written off, never lost
C27_Witness ==
    /\ book # None
    /\ status_of(book[1]) = Some(BookStatus.RESERVED)
    /\ reachable_from({BookStatus.RESERVED}) \cap final_statuses
          = {BookStatus.COMPLETE, BookStatus.CANCELLED}
    /\ \E new_status \in BookStatuses : ~update_status(book[1], new_status).raised

\* the operations that write fields before they update the status
writing_operations ==
    { "mark_sold", "mark_received", "mark_processed", "add_to_shipment",
      "mark_shipped_to_you", "mark_fba_shipped" }

\* C28: when one of mark_sold, mark_received, mark_processed, add_to_shipment,
\* mark_shipped_to_you, mark_fba_shipped raises ValueError for an invalid
\* transition, the book's history and all its other fields are as before the
\* call and no status-change handler is invoked.
C28_RejectedCallChangesNothing ==
    [][ ( /\ book # None
          /\ sa_ret'[1].op \in writing_operations
          /\ sa_ret'[1].exception = Some("ValueError") )
        => /\ book' = book
           /\ sa_ret'[1].emitted = None ]_vars

====
